---- MODULE Spec2Model ----
(***************************************************************************)
(* A model of eolearn/features/feature_extractor.py: the Lexer, the        *)
(* recursive-descent parser FeatureExtendedExtractor (parse_E, parse_T,    *)
(* parse_I, parse_S, parse_R, parse_D, parse_B), the closures it builds    *)
(* and their evaluation by __call__.                                       *)
(*                                                                         *)
(* A formula is a sequence of one-character strings (Lexer is a list of    *)
(* the characters of expr).  A closure is a record naming the lambda and   *)
(* the variables it captured.  Numbers are exact rationals [n, d] (the    *)
(* rounding of floats is left out) with the arithmetic of Python's own     *)
(* numbers, where a zero divisor raises; a raised exception is a record    *)
(* that names its type.  AfterSkip, Then, ThenE and ThenV state that an    *)
(* exception leaves a function at the statement that raised it.            *)
(***************************************************************************)
EXTENDS Integers, Sequences, FiniteSets, TLC

\* ------------------------------------------------------------- exceptions

NoErr == [type |-> "none", expected |-> "", got |-> ""]

IndexError == [type |-> "IndexError", expected |-> "", got |-> ""]

KeyError(ch) == [type |-> "KeyError", expected |-> "", got |-> ch]

ValueError(ch) == [type |-> "ValueError", expected |-> "", got |-> ch]

ZeroDivisionError == [type |-> "ZeroDivisionError", expected |-> "", got |-> ""]

\* SyntaxError("Expected '{}', got '{}'".format(expected_ch, ch))
SyntaxError(expected_ch, ch) == [type |-> "SyntaxError", expected |-> expected_ch, got |-> ch]

\* ------------------------------------------------------------ str methods

Digits == {"0", "1", "2", "3", "4", "5", "6", "7", "8", "9"}

\* str.isspace on one character
isspace(ch) == ch \in {" ", "\t", "\n"}

\* str.isdigit on one character
isdigit(ch) == ch \in Digits

\* str.lower on one character of the alphabet used
lower(ch) == IF ch = "A" THEN "a" ELSE ch

\* int(ch) on one character that is a digit
int(ch) ==
    CASE ch = "0" -> 0 [] ch = "1" -> 1 [] ch = "2" -> 2 [] ch = "3" -> 3
      [] ch = "4" -> 4 [] ch = "5" -> 5 [] ch = "6" -> 6 [] ch = "7" -> 7
      [] ch = "8" -> 8 [] ch = "9" -> 9

\* ------------------------------------------------------------------ Lexer

\* Lexer.popleft: self.pop(0); an empty list raises IndexError
popleft(lexer) ==
    IF lexer = <<>>
    THEN [err |-> IndexError, ch |-> "", lexer |-> lexer]
    ELSE [err |-> NoErr, ch |-> Head(lexer), lexer |-> Tail(lexer)]

\* Lexer.skip_whitespace: while self[0].isspace(): self.popleft()
\* self[0] on an empty list raises IndexError
RECURSIVE skip_whitespace(_)
skip_whitespace(lexer) ==
    IF lexer = <<>>
    THEN [err |-> IndexError, ch |-> "", lexer |-> lexer]
    ELSE IF isspace(Head(lexer))
         THEN skip_whitespace(popleft(lexer).lexer)
         ELSE [err |-> NoErr, ch |-> "", lexer |-> lexer]

\* the rest of a lexer operation F after skip_whitespace, unless that raised
AfterSkip(s, F(_)) == IF s.err # NoErr THEN s ELSE F(s.lexer)

\* Lexer.next: skip_whitespace, then popleft
Lexer_next(lexer) == AfterSkip(skip_whitespace(lexer), popleft)

\* self[0] of a lexer that is not empty
First(lexer) == [err |-> NoErr, ch |-> lexer[1], lexer |-> lexer]

\* Lexer.peek: skip_whitespace, then self[0]
Lexer_peek(lexer) == AfterSkip(skip_whitespace(lexer), First)

\* ----------------------------------------------------------------- parser

\* the result of a parse function: the exception raised (or NoErr), the
\* closure returned and the lexer as the function left it
Raised(e, lexer) == [err |-> e, node |-> [op |-> "none"], lexer |-> lexer]

Returned(node, lexer) == [err |-> NoErr, node |-> node, lexer |-> lexer]

\* the statements F that follow a call that returned r, unless it raised:
\* an exception leaves the function at once
Then(r, F(_)) == IF r.err # NoErr THEN Raised(r.err, r.lexer) ELSE F(r)

\* ensure_follows without its comparison: the character is taken unchecked
ensure_follows_unchecked(lexer, expected_ch) ==
    Then(Lexer_next(lexer), LAMBDA n : Returned([op |-> "none"], n.lexer))

\* FeatureExtendedExtractor.ensure_follows
ensure_follows(lexer, expected_ch) ==
    Then(Lexer_next(lexer), LAMBDA n :
        IF n.ch # expected_ch
        THEN Raised(SyntaxError(expected_ch, n.ch), n.lexer)
        ELSE Returned([op |-> "none"], n.lexer))

\* the three returns of parse_B, num and nxt read
parse_B_label(num, nxt, lexer) ==
    IF isdigit(nxt)
    \* lambda x: x[10 * int(num) + int(nxt)]
    THEN Returned([op |-> "band_two", num |-> num, nxt |-> nxt], popleft(lexer).lexer)
    ELSE IF lower(nxt) = "a"
    \* lambda x: x[8]
    THEN Returned([op |-> "band_8a"], popleft(lexer).lexer)
    ELSE IF ~isdigit(num)
    \* nr = int(num) - 1 raises
    THEN Raised(ValueError(num), lexer)
    \* lambda x: x[nr if nr < 8 else nr + 1]
    ELSE Returned([op |-> "band_one", nr |-> int(num) - 1], lexer)

\* FeatureExtendedExtractor.parse_B
parse_B(lexer) ==
    Then(Lexer_next(lexer), LAMBDA num :
    Then(Lexer_peek(num.lexer), LAMBDA nxt :
        parse_B_label(num.ch, nxt.ch, nxt.lexer)))

RECURSIVE parse_T(_)

\* the body shared by parse_I, parse_S and parse_R: '(' T ',' T ')'
parse_two(lexer, op) ==
    Then(ensure_follows(lexer, "("), LAMBDA o :
    Then(parse_T(o.lexer), LAMBDA val_fst :
    Then(ensure_follows(val_fst.lexer, ","), LAMBDA c :
    Then(parse_T(c.lexer), LAMBDA val_snd :
    Then(ensure_follows(val_snd.lexer, ")"), LAMBDA p :
        Returned([op |-> op, val_fst |-> val_fst.node, val_snd |-> val_snd.node],
                 p.lexer))))))

\* FeatureExtendedExtractor.parse_I: returns _index_fun
parse_I(lexer) == parse_two(lexer, "I")

\* FeatureExtendedExtractor.parse_S
parse_S(lexer) == parse_two(lexer, "S")

\* FeatureExtendedExtractor.parse_R
parse_R(lexer) == parse_two(lexer, "R")

\* FeatureExtendedExtractor.parse_D
parse_D(lexer) ==
    Then(ensure_follows(lexer, "("), LAMBDA o :
    Then(parse_T(o.lexer), LAMBDA val_fst :
    Then(ensure_follows(val_fst.lexer, ","), LAMBDA c :
    Then(parse_T(c.lexer), LAMBDA val_snd :
    Then(ensure_follows(val_snd.lexer, ","), LAMBDA c2 :
    Then(parse_T(c2.lexer), LAMBDA val_thd :
    Then(ensure_follows(val_thd.lexer, ")"), LAMBDA p :
        Returned([op |-> "D", val_fst |-> val_fst.node, val_snd |-> val_snd.node,
                  val_thd |-> val_thd.node], p.lexer))))))))

\* the dict lookup of parse_T, which raises KeyError, and the call
parse_T_dispatch(ch, lexer) ==
    CASE ch = "I" -> parse_I(lexer)
      [] ch = "S" -> parse_S(lexer)
      [] ch = "R" -> parse_R(lexer)
      [] ch = "D" -> parse_D(lexer)
      [] ch = "B" -> parse_B(lexer)
      [] OTHER -> Raised(KeyError(ch), lexer)

\* FeatureExtendedExtractor.parse_T
parse_T(lexer) ==
    Then(Lexer_next(lexer), LAMBDA ch : parse_T_dispatch(ch.ch, ch.lexer))

\* the statements F of parse_E that follow a call that returned r, unless
\* it raised: parse_E then returns no list
ThenE(r, F(_)) ==
    IF r.err # NoErr THEN [err |-> r.err, vals |-> <<>>, lexer |-> r.lexer] ELSE F(r)

\* vals.insert(0, f) in the place of vals.append(f)
vals_prepend(vals, f) == <<f>> \o vals

\* vals.append(f)
vals_append(vals, f) == Append(vals, f)

\* the loop of parse_E:
\* while lexer: ensure_follows(lexer, ';'); vals.append(parse_T(lexer))
RECURSIVE parse_E_loop(_, _)
parse_E_loop(vals, lexer) ==
    IF lexer = <<>>
    THEN [err |-> NoErr, vals |-> vals, lexer |-> lexer]
    ELSE ThenE(ensure_follows(lexer, ";"), LAMBDA s :
         ThenE(parse_T(s.lexer), LAMBDA t :
             parse_E_loop(vals_append(vals, t.node), t.lexer)))

\* FeatureExtendedExtractor.parse_E
parse_E(lexer) ==
    ThenE(parse_T(lexer), LAMBDA t : parse_E_loop(<<t.node>>, t.lexer))

\* ---------------------------------------------------------------- numbers

RECURSIVE Gcd(_, _)
Gcd(a, b) == IF b = 0 THEN a ELSE Gcd(b, a % b)

Abs(a) == IF a < 0 THEN -a ELSE a

\* the number n/d in lowest terms, d > 0
Num(n, d) ==
    LET g == Gcd(Abs(n), Abs(d))
        s == IF d < 0 THEN -1 ELSE 1
    IN  [err |-> NoErr, n |-> s * (n \div g), d |-> s * (d \div g)]

\* an evaluation that raised e
Raise(e) == [err |-> e, n |-> 0, d |-> 1]

\* v1 - v2
Sub(v1, v2) == Num(v1.n * v2.d - v2.n * v1.d, v1.d * v2.d)

\* v1 + v2
Add(v1, v2) == Num(v1.n * v2.d + v2.n * v1.d, v1.d * v2.d)

\* v1 / v2 on Python numbers: a zero divisor raises ZeroDivisionError
Div(v1, v2) ==
    IF v2.n = 0 THEN Raise(ZeroDivisionError)
    ELSE Num(v1.n * v2.d, v1.d * v2.n)

\* x[i] on a Python sequence: a negative i counts from the end, and an i
\* outside -len(x) .. len(x) - 1 raises IndexError
GetItem(x, i) ==
    IF 0 <= i /\ i < Len(x) THEN Num(x[i + 1], 1)
    ELSE IF -Len(x) <= i /\ i < 0 THEN Num(x[Len(x) + i + 1], 1)
    ELSE Raise(IndexError)

\* --------------------------------------------------------------- closures

\* _index_fun with sum and difference exchanged: (v1 + v2) / (v1 - v2)
index_fun_exchanged(v1, v2) == Div(Add(v1, v2), Sub(v1, v2))

\* _index_fun of parse_I: (v1 - v2) / (v1 + v2)
index_fun(v1, v2) == Div(Sub(v1, v2), Add(v1, v2))

\* the lambda of parse_S: val_fst(x) - val_snd(x)
diff_fun(v1, v2) == Sub(v1, v2)

\* the lambda of parse_R: val_fst(x) / val_snd(x)
ratio_fun(v1, v2) == Div(v1, v2)

\* the lambda of parse_D: (val_fst(x) + val_snd(x)) / val_thd(x)
sum_over_fun(v1, v2, v3) == Div(Add(v1, v2), v3)

\* the lambda of parse_B's digit branch: x[10 * int(num) + int(nxt)];
\* int(num) runs at the call, and raises ValueError when num is no digit
band_two_fun(num, nxt, x) ==
    IF ~isdigit(num) THEN Raise(ValueError(num))
    ELSE GetItem(x, 10 * int(num) + int(nxt))

\* the lambda of parse_B's 'a' branch: x[8]
band_8a_fun(x) == GetItem(x, 8)

\* the lambda of parse_B's last branch: x[nr if nr < 8 else nr + 1]
band_one_fun(nr, x) == GetItem(x, IF nr < 8 THEN nr ELSE nr + 1)

\* the rest F of a closure's body after an operand's call returned v,
\* unless it raised: the exception leaves the closure at once
ThenV(v, F(_)) == IF v.err # NoErr THEN v ELSE F(v)

\* the call f(x) of a closure f the parser returned; the operands of an
\* operator are called left to right
RECURSIVE Apply(_, _)
Apply(f, x) ==
    CASE f.op = "band_two" -> band_two_fun(f.num, f.nxt, x)
      [] f.op = "band_8a" -> band_8a_fun(x)
      [] f.op = "band_one" -> band_one_fun(f.nr, x)
      [] f.op = "I" ->
            ThenV(Apply(f.val_fst, x), LAMBDA v1 :
            ThenV(Apply(f.val_snd, x), LAMBDA v2 : index_fun(v1, v2)))
      [] f.op = "S" ->
            ThenV(Apply(f.val_fst, x), LAMBDA v1 :
            ThenV(Apply(f.val_snd, x), LAMBDA v2 : diff_fun(v1, v2)))
      [] f.op = "R" ->
            ThenV(Apply(f.val_fst, x), LAMBDA v1 :
            ThenV(Apply(f.val_snd, x), LAMBDA v2 : ratio_fun(v1, v2)))
      [] f.op = "D" ->
            ThenV(Apply(f.val_fst, x), LAMBDA v1 :
            ThenV(Apply(f.val_snd, x), LAMBDA v2 :
            ThenV(Apply(f.val_thd, x), LAMBDA v3 : sum_over_fun(v1, v2, v3))))

\* FeatureExtendedExtractor.__call__: [f(x) for f in self.parsed]; the
\* first exception ends the comprehension and no list is returned
RECURSIVE call_from(_, _, _)

\* one step of the comprehension: f(x) returned or raised v
call_next(fs, x, acc, v) ==
    IF v.err # NoErr THEN [err |-> v.err, vals |-> <<>>]
    ELSE call_from(Tail(fs), x, Append(acc, v))

call_from(fs, x, acc) ==
    IF fs = <<>> THEN [err |-> NoErr, vals |-> acc]
    ELSE call_next(fs, x, acc, Apply(Head(fs), x))

call(parsed, x) == call_from(parsed, x, <<>>)

\* ------------------------------------------------- the formulas written

\* A formula is written as a sequence of terms joined by ';'.  A term is a
\* band [op |-> "B", label |-> <<characters>>] or an operator applied to
\* terms, [op |-> o, args |-> <<terms>>].
Band(label) == [op |-> "B", label |-> label]

Op(o, args) == [op |-> o, args |-> args]

RECURSIVE JoinWith(_, _)
JoinWith(strs, sep) ==
    IF Len(strs) = 0 THEN <<>>
    ELSE IF Len(strs) = 1 THEN strs[1]
    ELSE strs[1] \o <<sep>> \o JoinWith(Tail(strs), sep)

\* the text of a term
RECURSIVE Render(_)
Render(t) ==
    IF t.op = "B" THEN <<"B">> \o t.label
    ELSE <<t.op, "(">> \o JoinWith([i \in DOMAIN t.args |-> Render(t.args[i])], ",")
         \o <<")">>

\* the text of a formula
RenderE(ts) == JoinWith([i \in DOMAIN ts |-> Render(ts[i])], ";")

NoEdit == [kind |-> "none", at |-> 0, ch |-> ""]

\* the text after an edit: a character inserted before position at, or the
\* text cut to its first at characters
Edited(text, edit) ==
    CASE edit.kind = "insert" ->
            SubSeq(text, 1, edit.at - 1) \o <<edit.ch>> \o SubSeq(text, edit.at, Len(text))
      [] edit.kind = "truncate" -> SubSeq(text, 1, edit.at)
      [] OTHER -> text

\* bounds of the formulas and calls explored
MaxLeaves == 3

MaxTerms == 3

MaxCalls == 2

VecLen == 13

Operators2 == {"I", "S", "R"}

\* the terms with exactly k bands, over the labels given
RECURSIVE TermsOfSize(_, _)
TermsOfSize(k, labels) ==
    IF k = 1 THEN {Band(l) : l \in labels}
    ELSE UNION {{Op(o, <<a, b>>) : o \in Operators2, a \in TermsOfSize(i, labels),
                                   b \in TermsOfSize(k - i, labels)} : i \in 1..(k - 1)}
         \cup
         UNION {{Op("D", <<a, b, c>>) : a \in TermsOfSize(ij[1], labels),
                                        b \in TermsOfSize(ij[2], labels),
                                        c \in TermsOfSize(k - ij[1] - ij[2], labels)} :
                ij \in {p \in (1..k) \X (1..k) : p[1] + p[2] < k}}

LeafLabels == {<<"0", "1">>, <<"3">>}

\* single terms, nested up to MaxLeaves bands
NestedTerms == UNION {TermsOfSize(k, LeafLabels) : k \in 1..MaxLeaves}

\* the pool the ';'-separated formulas are made of
SeqPool ==
    {Band(<<"0", "1">>), Band(<<"3">>), Band(<<"8", "A">>),
     Op("S", <<Band(<<"1", "2">>), Band(<<"0", "4">>)>>),
     Op("D", <<Band(<<"9">>), Band(<<"1", "0">>), Band(<<"0", "2">>)>>)}

SeqFormulas == UNION {[1..n -> SeqPool] : n \in 1..MaxTerms}

\* every band label of one or two characters over these characters
LabelChars == {"0", "1", "2", "3", "8", "9", "A", "a", "X"}

Labels == {<<c>> : c \in LabelChars} \cup {<<c, d>> : c \in LabelChars, d \in LabelChars}
          \cup {<<"4">>, <<"5">>, <<"6">>, <<"7">>, <<"0", "4">>, <<"0", "5">>,
                <<"0", "6">>, <<"0", "7">>}

\* a band of every label: alone, as an operator's argument, before ';' and last
BandFormulas ==
    UNION {{<<Band(l)>>,
            <<Op("S", <<Band(l), Band(c)>>)>>,
            <<Op("S", <<Band(c), Band(l)>>)>>,
            <<Band(l), Band(c)>>,
            <<Band(c), Band(l)>>} : l \in Labels, c \in {<<"1", "2">>, <<"0", "1">>}}

\* the formulas that are edited
EditBases ==
    {<<Op("I", <<Band(<<"0", "8">>), Band(<<"0", "4">>)>>)>>,
     <<Band(<<"0", "1">>), Band(<<"0", "2">>),
       Op("I", <<Band(<<"0", "1">>), Band(<<"0", "2">>)>>)>>,
     <<Op("I", <<Op("S", <<Band(<<"0", "1">>), Band(<<"0", "2">>)>>),
                 Op("D", <<Band(<<"0", "3">>), Band(<<"0", "4">>), Band(<<"0", "5">>)>>)>>)>>,
     <<Band(<<"2">>), Op("R", <<Band(<<"1">>), Band(<<"9">>)>>)>>,
     <<Band(<<"8", "A">>)>>,
     <<Op("X", <<Band(<<"0", "1">>), Band(<<"0", "2">>)>>)>>}

InsertChars == {" ", "\t", "\n", "X", ")", "(", ",", ";", "B", "1", "a"}

EditsOf(text) ==
    {[kind |-> "insert", at |-> p, ch |-> c] : p \in 1..(Len(text) + 1), c \in InsertChars}
    \cup {[kind |-> "truncate", at |-> p, ch |-> ""] : p \in 0..(Len(text) - 1)}

\* what is written: the terms and the edit of their text
Written ==
    {[terms |-> ts, edit |-> NoEdit] :
        ts \in {<<t>> : t \in NestedTerms} \cup SeqFormulas \cup BandFormulas \cup EditBases}
    \cup UNION {{[terms |-> ts, edit |-> e] : e \in EditsOf(RenderE(ts))} : ts \in EditBases}

\* the band-value vectors the compiled set is called with
Vectors == {[i \in 1..VecLen |-> 10 * i], [i \in 1..VecLen |-> 7 - i]}

\* ---------------------------------------------------------- state machine

VARIABLES
    written,    \* the terms and the edit the formula's text was made of
    expr,       \* the formula's text, the argument of __init__
    pc,         \* "new" before __init__, then "ready" (it returned) or "failed" (it raised)
    lexer,      \* the Lexer of __init__, as parse_E left it
    parsed,     \* self.parsed
    err,        \* the exception __init__ raised
    calls       \* the calls made: the vector passed and what __call__ returned or raised

vars == <<written, expr, pc, lexer, parsed, err, calls>>

Init ==
    /\ written \in Written
    /\ expr = Edited(RenderE(written.terms), written.edit)
    /\ pc = "new"
    /\ lexer = <<>>
    /\ parsed = <<>>
    /\ err = NoErr
    /\ calls = <<>>

\* FeatureExtendedExtractor.__init__: self.parsed = self.parse_E(Lexer(expr))
Construct ==
    /\ pc = "new"
    /\ LET r == parse_E(expr)
       IN  /\ lexer' = r.lexer
           /\ err' = r.err
           /\ parsed' = r.vals
           /\ pc' = IF r.err = NoErr THEN "ready" ELSE "failed"
    /\ UNCHANGED <<written, expr, calls>>

\* __call__ over a self.parsed that is an iterator: the call uses it up
Call_consuming(x) ==
    /\ pc = "ready"
    /\ Len(calls) < MaxCalls
    /\ calls' = Append(calls, [x |-> x, out |-> call(parsed, x)])
    /\ parsed' = <<>>
    /\ UNCHANGED <<written, expr, pc, lexer, err>>

\* FeatureExtendedExtractor.__call__ on the vector x
Call(x) ==
    /\ pc = "ready"
    /\ Len(calls) < MaxCalls
    /\ calls' = Append(calls, [x |-> x, out |-> call(parsed, x)])
    /\ UNCHANGED <<written, expr, pc, lexer, parsed, err>>

Next ==
    \/ Construct
    \/ \E x \in Vectors : Call(x)

Spec == Init /\ [][Next]_vars

\* ----------------------------------------------------------------- claims

\* the labels of the bands of a term
RECURSIVE LabelsOf(_)
LabelsOf(t) ==
    IF t.op = "B" THEN {t.label}
    ELSE UNION {LabelsOf(t.args[i]) : i \in DOMAIN t.args}

LabelsIn(ts) == UNION {LabelsOf(ts[i]) : i \in DOMAIN ts}

\* the operators of a term
RECURSIVE OpsOf(_)
OpsOf(t) ==
    IF t.op = "B" THEN {}
    ELSE {t.op} \cup UNION {OpsOf(t.args[i]) : i \in DOMAIN t.args}

OpsIn(ts) == UNION {OpsOf(ts[i]) : i \in DOMAIN ts}

\* the labels of the band index mapping, and the zero-padded labels
MappedLabels ==
    {<<d>> : d \in Digits \ {"0"}}
    \cup {<<"1", "0">>, <<"1", "1">>, <<"1", "2">>, <<"8", "A">>, <<"8", "a">>}

PaddedLabels == {<<"0", d>> : d \in Digits \ {"0"}}

\* band_index as the specification gives it: 1..8 to 0..7, 8A to 8, 9 to 9,
\* 10, 11, 12 to themselves, and a zero-padded 0d as d
band_index(label) ==
    IF Len(label) = 1 THEN (IF label[1] = "9" THEN 9 ELSE int(label[1]) - 1)
    ELSE IF label[1] = "0" THEN (IF label[2] = "9" THEN 9 ELSE int(label[2]) - 1)
    ELSE IF label[1] = "8" THEN 8
    ELSE 10 + int(label[2])

\* the value the specification gives a term on x, its bands read through
\* band_index; Raise(...) where a division has a zero divisor
RECURSIVE Meaning(_, _)
Meaning(t, x) ==
    IF t.op = "B" THEN Num(x[band_index(t.label) + 1], 1)
    ELSE LET v == [i \in DOMAIN t.args |-> Meaning(t.args[i], x)]
         IN  IF \E i \in DOMAIN v : v[i].err # NoErr THEN Raise(ZeroDivisionError)
             ELSE CASE t.op = "I" -> Div(Sub(v[1], v[2]), Add(v[1], v[2]))
                    [] t.op = "S" -> Sub(v[1], v[2])
                    [] t.op = "R" -> Div(v[1], v[2])
                    [] t.op = "D" -> Div(Add(v[1], v[2]), v[3])

\* the formula was constructed from the text of its terms, unedited, and
\* every call returned what the specification's mapping gives
MeansWhatIsWritten ==
    /\ pc = "ready"
    /\ \A k \in DOMAIN calls :
         (\A i \in DOMAIN written.terms : Meaning(written.terms[i], calls[k].x).err = NoErr)
         => /\ calls[k].out.err = NoErr
            /\ calls[k].out.vals
                 = [i \in DOMAIN written.terms |-> Meaning(written.terms[i], calls[k].x)]

KnownOps == {"I", "S", "R", "D"}

\* C1: a band term 'B'+L with L in {1..9, 10, 11, 12, 8A} compiles wherever a
\* Term may stand (also as the whole formula and as its last token) and reads
\* input_vector[band_index(L)].
C1_MappedBandCompilesAnywhere ==
    (/\ pc # "new"
     /\ written.edit = NoEdit
     /\ OpsIn(written.terms) \subseteq KnownOps
     /\ LabelsIn(written.terms) \subseteq MappedLabels)
    => MeansWhatIsWritten

\* C2: a zero-padded label B0d reads the index of label d, so that I(B08,B04)
\* is (x[7] - x[3]) / (x[7] + x[3]) and B01;B02;I(B01,B02) on [10, 20, ...]
\* is [10, 20, (10-20)/(10+20)].
C2_PaddedLabelReadsIndexOfDigit ==
    (/\ pc # "new"
     /\ written.edit = NoEdit
     /\ OpsIn(written.terms) \subseteq KnownOps
     /\ LabelsIn(written.terms) \subseteq PaddedLabels)
    => MeansWhatIsWritten

\* the closure of a band as parse_B compiles it where an operator's
\* argument stands, called on x
CompiledBand(label, x) == Apply(parse_B(label \o <<")">>).node, x)

\* the recursive denotation of a term on x: the formula of each operator's
\* row over the results of its compiled children, in argument order
RECURSIVE Denotation(_, _)
Denotation(t, x) ==
    IF t.op = "B" THEN CompiledBand(t.label, x)
    ELSE LET v == [i \in DOMAIN t.args |-> Denotation(t.args[i], x)]
         IN  IF \E i \in DOMAIN v : v[i].err # NoErr
             THEN v[CHOOSE i \in DOMAIN v : v[i].err # NoErr
                                            /\ \A j \in 1..(i - 1) : v[j].err = NoErr]
             ELSE CASE t.op = "I" -> Div(Sub(v[1], v[2]), Add(v[1], v[2]))
                    [] t.op = "S" -> Sub(v[1], v[2])
                    [] t.op = "R" -> Div(v[1], v[2])
                    [] t.op = "D" -> Div(Add(v[1], v[2]), v[3])

Compiled == pc = "ready" /\ written.edit = NoEdit

\* C3: for every formula that compiles, each operator term evaluates to the
\* recursive denotation of the term: I is (v1 - v2) / (v1 + v2), S is v1 - v2,
\* R is v1 / v2, D is (v1 + v2) / v3 over the results of its compiled
\* children on the same x, at every nesting depth.
C3_OperatorsDenote ==
    Compiled =>
        \A k \in DOMAIN calls :
            LET d == [i \in DOMAIN written.terms |-> Denotation(written.terms[i], calls[k].x)]
            IN  /\ calls[k].out.err = NoErr <=> \A i \in DOMAIN d : d[i].err = NoErr
                /\ calls[k].out.err = NoErr =>
                     \A i \in DOMAIN d : written.terms[i].op # "B" => calls[k].out.vals[i] = d[i]

NestedExample ==
    <<Op("I", <<Op("S", <<Band(<<"0", "1">>), Band(<<"0", "2">>)>>),
                Op("D", <<Band(<<"0", "3">>), Band(<<"0", "4">>), Band(<<"0", "5">>)>>)>>)>>

\* 'I(S(B01,B02),D(B03,B04,B05))' was compiled and called, and returned a number
C3_Witness ==
    /\ Compiled
    /\ written.terms = NestedExample
    /\ calls # <<>>
    /\ calls[1].out.err = NoErr
    /\ Len(calls[1].out.vals) = 1

\* the closure of a term compiled by itself, a ';' after it, called on x
TermAlone(t, x) == Apply(parse_T(Render(t) \o <<";">>).node, x)

\* C4: for every formula that compiles and has n terms separated by ';',
\* a call that returns returns exactly n results, the i-th the value of the
\* i-th term on x.
C4_OneResultPerTermInOrder ==
    Compiled =>
        /\ Len(parsed) = Len(written.terms)
        /\ \A k \in DOMAIN calls :
             calls[k].out.err = NoErr =>
                /\ Len(calls[k].out.vals) = Len(written.terms)
                /\ \A i \in DOMAIN written.terms :
                     calls[k].out.vals[i] = TermAlone(written.terms[i], calls[k].x)

\* a formula of three different terms was compiled and a call returned
C4_Witness ==
    /\ Compiled
    /\ Len(written.terms) = 3
    /\ written.terms[1] # written.terms[2]
    /\ written.terms[2] # written.terms[3]
    /\ calls # <<>>
    /\ calls[1].out.err = NoErr
    /\ calls[1].out.vals[1] # calls[1].out.vals[2]
    /\ calls[1].out.vals[2] # calls[1].out.vals[3]
    /\ calls[1].out.vals[1] # calls[1].out.vals[3]

\* the labels outside the mapping: 0 and 00, a two-digit number other than
\* 10, 11, 12, an 'A' or 'a' after a digit other than 8, and a character
\* that is no digit directly after 'B'
UnmappedLabels ==
    {l \in Labels :
        \/ l \in {<<"0">>, <<"0", "0">>}
        \/ Len(l) = 2 /\ isdigit(l[1]) /\ isdigit(l[2]) /\ l[1] # "0"
                      /\ l \notin {<<"1", "0">>, <<"1", "1">>, <<"1", "2">>}
        \/ Len(l) = 2 /\ isdigit(l[1]) /\ l[1] # "8" /\ lower(l[2]) = "a"
        \/ ~isdigit(l[1])}

\* C5: construction fails, and leaves no compiled set, for every formula
\* with a band whose label is outside the mapping's domain.
C5_UnmappedLabelFailsToCompile ==
    (/\ pc # "new"
     /\ written.edit = NoEdit
     /\ OpsIn(written.terms) \subseteq KnownOps
     /\ LabelsIn(written.terms) \cap UnmappedLabels # {})
    => pc = "failed" /\ parsed = <<>>

\* the terms are of the grammar: known operators, and labels the parser
\* reads to their end wherever they stand
WellFormed(ts) ==
    /\ OpsIn(ts) \subseteq KnownOps
    /\ LabelsIn(ts) \subseteq MappedLabels \cup PaddedLabels

\* C6: when the parser asks the lexer for a character and none remains (a
\* formula cut short: empty, ending after ';', a parenthesis missing),
\* construction fails with a SyntaxError and no compiled set is produced.
C6_EndOfInputIsSyntaxError ==
    (/\ pc = "failed"
     /\ written.edit.kind = "truncate"
     /\ WellFormed(written.terms))
    => err.type = "SyntaxError" /\ parsed = <<>>

\* the first character of the text that is no whitespace, "" when none is
RECURSIVE FirstChar(_)
FirstChar(text) ==
    IF text = <<>> THEN ""
    ELSE IF isspace(text[1]) THEN FirstChar(Tail(text))
    ELSE text[1]

\* C7: when the first non-whitespace character of a Term is none of I, S, R,
\* D, B, construction fails with a SyntaxError and no compiled set is produced.
C7_UnknownOperatorIsSyntaxError ==
    (/\ pc # "new"
     /\ FirstChar(expr) \notin {"", "I", "S", "R", "D", "B"})
    => pc = "failed" /\ err.type = "SyntaxError" /\ parsed = <<>>

\* C8: whitespace is transparent: a formula with a whitespace character
\* inserted at any position (also after the last character) constructs
\* exactly when the formula does, and the two return equal outputs.
C8_WhitespaceTransparent ==
    (/\ pc # "new"
     /\ written.edit.kind = "insert"
     /\ isspace(written.edit.ch))
    => LET plain == parse_E(RenderE(written.terms))
       IN  /\ pc = "ready" <=> plain.err = NoErr
           /\ pc = "ready" =>
                \A k \in DOMAIN calls : calls[k].out = call(plain.vals, calls[k].x)

EndOfTerm(ts, i) == Len(RenderE(SubSeq(ts, 1, i)))

\* ch after the term t is read by the parser as part of t's band label
ExtendsLabel(t, ch) ==
    t.op = "B" /\ Len(t.label) = 1 /\ (isdigit(ch) \/ lower(ch) = "a")

\* a character, neither whitespace nor ';', was inserted right after the
\* i-th complete term
LeftAfterTerm(i) ==
    /\ written.edit.kind = "insert"
    /\ WellFormed(written.terms)
    /\ written.edit.at = EndOfTerm(written.terms, i) + 1
    /\ ~isspace(written.edit.ch)
    /\ written.edit.ch # ";"
    /\ ~ExtendsLabel(written.terms[i], written.edit.ch)

\* C10: construction succeeds only if the whole formula is consumed; a
\* non-whitespace character other than ';' left after a complete Term makes
\* it fail with a SyntaxError that reports the expected ';' and the actual
\* character.
C10_LeftoverAfterTermIsSyntaxError ==
    /\ pc = "ready" => lexer = <<>>
    /\ \A i \in DOMAIN written.terms :
          (pc # "new" /\ LeftAfterTerm(i))
          => /\ pc = "failed"
             /\ err = SyntaxError(";", written.edit.ch)
             /\ parsed = <<>>

\* 'I(B08,B04))' was refused: expected ';', got ')'
C10_Witness ==
    /\ pc = "failed"
    /\ LeftAfterTerm(1)
    /\ expr = Render(Op("I", <<Band(<<"0", "8">>), Band(<<"0", "4">>)>>)) \o <<")">>
    /\ err = SyntaxError(";", ")")

====
